---- MODULE Spec2Model ----
(***************************************************************************)
(* A model of the douban_spider scraper (src/douban_book_spider.py): the   *)
(* dedup-on-load JSONL store, the paginated collectors get_book_comments   *)
(* and get_book_review, get_book_info, and the thread-pool orchestrator.   *)
(*                                                                         *)
(* Record identifiers are modelled as naturals: 0 is the empty string (no  *)
(* identifier could be extracted), 1..MaxId are identifiers found in the   *)
(* markup.  A line of a .jsonl file is modelled by what json.loads makes   *)
(* of it: the keys the loader looks at, or a line that does not parse.     *)
(***************************************************************************)
EXTENDS Integers, Sequences, FiniteSets, TLC

\* ------------------------------------------------------------------ bounds
MaxId == 2          \* record identifiers 1..MaxId appear in list pages
MaxItems == 1       \* a list page carries at most MaxItems items
MaxTarget == 2      \* max_comments and comments_per_page range over 1..MaxTarget
MaxRuns == 2        \* collector invocations on the output directory
MaxLines == 3       \* length of the files given to the loader on its own
MaxBooks == 2       \* book names given to main, and distinct names among them
MaxWorkers == 2     \* --workers ranges over 1..MaxWorkers
MaxThreads == 2     \* threads calling into logger_config
MaxProxies == 2     \* proxy URLs 1..MaxProxies, and lines of the proxy file

\* ------------------------------------------------------------- vocabulary
Absent == -1                       \* the key is not in the parsed object
Ids == 1..MaxId
ListStreams == {"comments", "reviews"}
Streams == {"book_info"} \cup ListStreams
\* The book id is a string of digits like the review ids; one value lies in
\* the range of the record identifiers, one outside it.
BookIds == {1, MaxId + 6}

\* A line of a stream file, as json.loads sees it.
\* "content" tells where the text of a record comes from: the list page, or
\* the detail page of a review.
JsonLine(bid, hasTitle, rid) ==
    [type |-> "json", book_id |-> bid, title |-> hasTitle, review_id |-> rid,
     content |-> "list"]
BadLine ==
    [type |-> "bad", book_id |-> Absent, title |-> FALSE, review_id |-> Absent,
     content |-> "none"]
BlankLine ==
    [type |-> "blank", book_id |-> Absent, title |-> FALSE, review_id |-> Absent,
     content |-> "none"]

\* The records the three collectors build, serialised by _append_to_jsonl.
BookInfoRecord(bid) == JsonLine(bid, TRUE, Absent)
CommentRecord(rid, bid) == JsonLine(bid, FALSE, rid)
ReviewRecord(rid, bid) == JsonLine(bid, TRUE, rid)

RecordOf(s, rid, bid) ==
    IF s = "comments" THEN CommentRecord(rid, bid) ELSE ReviewRecord(rid, bid)

\* What the secondary request of get_book_review for the full text of a
\* review comes to: "skipped" (fetch_full_content is off, or the item has no
\* review_url), "full" (the detail page holds .review-content), "no_elem"
\* (it does not), "failed" (requests.get raises).  get_book_comments makes
\* no such request.
DetailOutcomes == {"skipped", "full", "no_elem", "failed"}
Details(s) == IF s = "reviews" THEN DetailOutcomes ELSE {"skipped"}

\* review["content"] = full_content_elem.text.strip()
WithDetailLosesContent(rec, d) ==
    IF d = "full" THEN [rec EXCEPT !.content = "detail"]
    ELSE IF d = "failed" THEN [rec EXCEPT !.content = "none"]
    ELSE rec

WithDetail(rec, d) == IF d = "full" THEN [rec EXCEPT !.content = "detail"] ELSE rec

\* ------------------------------------------------------ _load_existing_ids
\* The try block encloses the whole for loop: the first line json.loads
\* rejects ends the scan, and the ids gathered so far are returned.
RECURSIVE LoadFrom(_, _, _)
LoadFrom(f, i, acc) ==
    IF i > Len(f) THEN acc
    ELSE IF f[i].type = "blank" THEN LoadFrom(f, i + 1, acc)
    ELSE IF f[i].type = "bad" THEN acc
    ELSE IF f[i].book_id # Absent /\ f[i].title
         THEN LoadFrom(f, i + 1, acc \cup {f[i].book_id})
    ELSE IF f[i].review_id # Absent
         THEN IF f[i].review_id # 0
              THEN LoadFrom(f, i + 1, acc \cup {f[i].review_id})
              ELSE LoadFrom(f, i + 1, acc)
    ELSE LoadFrom(f, i + 1, acc)

\* A file that does not exist is the empty sequence: both give set().
LoadExistingIds(f) == LoadFrom(f, 1, {})

\* ------------------------------------------------------------ the server
\* What one HTTP request for a list page gives: requests.get raises, or a
\* response (whose status the collectors never look at) with the items the
\* CSS selector finds in its body.  An item is the identifier the code
\* extracts from it, or an item whose field extraction raises.
Unknown == [kind |-> "unknown", status |-> "none", items |-> <<>>]
FetchException == [kind |-> "exception", status |-> "none", items |-> <<>>]
Page(st, its) == [kind |-> "page", status |-> st, items |-> its]

\* What the collector keeps of a response: the items are in the list that
\* soup.select gave.
Received(resp) ==
    [kind |-> resp.kind, status |-> resp.status, count |-> Len(resp.items)]

Item(i) == [id |-> i, raises |-> FALSE]
RaisingItem == [id |-> 0, raises |-> TRUE]
Items == {Item(i) : i \in 0..MaxId} \cup {RaisingItem}

RECURSIVE SeqsUpTo(_, _)
SeqsUpTo(S, n) ==
    IF n = 0 THEN {<<>>}
    ELSE LET shorter == SeqsUpTo(S, n - 1)
         IN  shorter \cup {Append(q, x) : q \in {r \in shorter : Len(r) = n - 1}, x \in S}

\* The body of an error response: no list item, or a single one.
ErrorBodies == {<<>>} \cup {<<i>> : i \in Items}

\* The request raises, or gives a 2xx response, or an error response; nothing
\* in the collectors looks at the status.
Responses ==
    {FetchException}
        \cup {Page("200", its) : its \in SeqsUpTo(Items, MaxItems)}
        \cup {Page("404", its) : its \in ErrorBodies}

PageIndexes == 0..(MaxTarget - 1)

\* max_pages = (max_comments + comments_per_page - 1) // comments_per_page
MaxPagesOffByOne(m, p) == (m + p) \div p
MaxPages(m, p) == (m + p - 1) \div p

\* ---------------------------------------------------------------- state
VARIABLES
    files,              \* the output directory: stream -> sequence of lines
    server,             \* a scripted server: page index -> response
    pc,                 \* "idle", "while", "for", "endpage": where the collector is
    stream,             \* the collector that is running
    book_id,            \* the book the directory belongs to
    max_comments,       \* its max_comments argument
    comments_per_page,  \* its comments_per_page argument
    existing_ids,       \* the Dedup Index of the run
    new_count,
    page_count,
    page_new_count,
    page_failed,        \* _append_to_jsonl has returned False on this page
    detail,             \* the secondary request for the record last looked at
    pace,               \* the collector's last I/O: "none", "request",
                        \* or "delay" (time.sleep)
    burst,              \* a request of the run went out with no sleep
                        \* after the request before it
    response,           \* what the last request gave
    items,              \* the items of the page not yet looked at
    fetches,            \* list-page requests made by the run
    outcome,            \* how the last run left its loop
    runs,               \* invocations so far
    file_at_start,      \* the stream file as the run found it
    script,             \* a scripted scenario: the invocations to make
    load_file,          \* the loader on its own: the file it is given
    load_result,        \* and what it returned
    append_call,        \* _append_to_jsonl on its own: the file, the record,
                        \* and what the disk does with the write
    append_result,      \* the file afterwards and the value returned
    book_names,         \* main: the --book_name list, one task for each
    site,               \* book name -> what the world holds for that book
    workers,            \* main: --workers
    task_pc,            \* task -> where crawl_single_book is
    task_result,        \* task -> the first component of what it returned
    handlers,           \* sinks of the process-wide loguru logger
    output,             \* book name -> streams with records in its directory
    success_count,      \* main
    failed_books,       \* main
    collected,          \* main: futures that as_completed has yielded
    exit_status,        \* the exit status of the process main ran in
    logger_configured,  \* logger_config: the module-level flag _logger_configured
    sinks,              \* logger_config: the handlers of the loguru logger, in
                        \* the order they were added
    thread_pc,          \* logger_config: thread -> where its call is
    thread_args,        \* logger_config: thread -> module_name of its call
    proxies,            \* ProxyPool: self.proxies, the list loaded
    valid_proxies,      \* ProxyPool: self.valid_proxies, the list validated
    failed_proxies,     \* ProxyPool: self.failed_proxies, a set
    proxy,              \* ProxyPool: what the last get_proxy returned
    pool_op             \* ProxyPool: the method called last

\* The local state of a collector invocation.
run_vars ==
    <<pc, stream, max_comments, comments_per_page, existing_ids, new_count,
      page_count, page_new_count, page_failed, detail, pace, burst, response, items,
      fetches, outcome, file_at_start>>
collector_vars == <<files, server, book_id, run_vars, runs, script>>
loader_vars == <<load_file, load_result>>
append_vars == <<append_call, append_result>>
store_vars == <<loader_vars, append_vars>>
main_vars ==
    <<book_names, site, workers, task_pc, task_result, handlers, output,
      success_count, failed_books, collected, exit_status>>
logger_vars == <<logger_configured, sinks, thread_pc, thread_args>>
pool_vars == <<proxies, valid_proxies, failed_proxies, proxy, pool_op>>
lib_vars == <<logger_vars, pool_vars>>
outside_collector == <<store_vars, main_vars, lib_vars>>
vars == <<collector_vars, store_vars, main_vars, lib_vars>>

NotLoaded == {Absent}

\* An empty output directory.  A behaviour follows the collector of one list
\* stream: the two collectors read and write different files.
CollectorInit ==
    /\ files = [s \in Streams |-> <<>>]
    /\ server = [p \in PageIndexes |-> Unknown]
    /\ pc = "idle"
    /\ stream \in ListStreams
    /\ book_id \in BookIds
    /\ max_comments = 1
    /\ comments_per_page = 1
    /\ existing_ids = {}
    /\ new_count = 0
    /\ page_count = 0
    /\ page_new_count = 0
    /\ page_failed = FALSE
    /\ detail = "none"
    /\ pace = "none"
    /\ burst = FALSE
    /\ response = Received(Unknown)
    /\ items = <<>>
    /\ fetches = 0
    /\ outcome = "none"
    /\ runs = 0
    /\ file_at_start = <<>>
    /\ script = <<>>

LoaderIdle == load_file = <<>> /\ load_result = NotLoaded

NotCalled == [file |-> <<>>, returned |-> "none"]
AppendIdle ==
    /\ append_call = [file |-> <<>>, record |-> BlankLine, disk |-> "none"]
    /\ append_result = NotCalled

\* The process is running: it has no exit status yet.
NotExited == -1

\* main before any book name is given
MainIdle ==
    /\ book_names = <<>>
    /\ site = <<>>
    /\ workers = 1
    /\ task_pc = <<>>
    /\ task_result = <<>>
    /\ handlers = 1
    /\ output = <<>>
    /\ success_count = 0
    /\ failed_books = <<>>
    /\ collected = {}
    /\ exit_status = NotExited

\* logger_config as imported: the flag is False, loguru has its default
\* stderr handler, no thread is in a call.
Threads == 1..MaxThreads
Modules == {"app", "epub_parser"}
DefaultSink == [sink |-> "stderr", module |-> "none"]

LoggerIdle ==
    /\ logger_configured = FALSE
    /\ sinks = <<DefaultSink>>
    /\ thread_pc = [th \in Threads |-> "idle"]
    /\ thread_args = [th \in Threads |-> "app"]

\* A value that may be None: the empty sequence, or the value alone.
None == <<>>
Some(x) == <<x>>

\* No ProxyPool has been constructed.
PoolIdle ==
    /\ proxies = <<>>
    /\ valid_proxies = <<>>
    /\ failed_proxies = {}
    /\ proxy = None
    /\ pool_op = "none"

LibIdle == LoggerIdle /\ PoolIdle

Init == CollectorInit /\ LoaderIdle /\ AppendIdle /\ MainIdle /\ LibIdle

\* ------------------------------------------------------- _append_to_jsonl
\* One line is appended and True returned, or the write raises, nothing is
\* appended and False is returned.
AppendToJsonlTruncates(f, rec, ok) == IF ok THEN <<rec>> ELSE f

AppendToJsonl(f, rec, ok) == IF ok THEN Append(f, rec) ELSE f

\* ---------------------------------------------------------- get_book_info
\* Skips a book whose id the loader finds in book_info.jsonl; otherwise one
\* request (which may fail) and one append (which may fail).
GetBookInfo(fetched, ok) ==
    /\ pc = "idle"
    /\ files' = IF book_id \in LoadExistingIds(files["book_info"]) \/ ~fetched
                THEN files
                ELSE [files EXCEPT !["book_info"] = AppendToJsonl(@, BookInfoRecord(book_id), ok)]
    /\ UNCHANGED <<server, book_id, run_vars, runs, script>>
    /\ UNCHANGED outside_collector

\* ------------------------------------- get_book_comments / get_book_review
\* The two collectors run the same loop; they differ in the file they write
\* and in the record they build.
\* The collector up to its while loop: the Dedup Index is loaded, the
\* counters are zeroed.
InvokeStartsAtPageOne(s, m, p) ==
    /\ pc = "idle"
    /\ stream' = s
    /\ max_comments' = m
    /\ comments_per_page' = p
    /\ existing_ids' = LoadExistingIds(files[s])
    /\ new_count' = 0
    /\ page_count' = 1
    /\ page_new_count' = 0
    /\ page_failed' = FALSE
    /\ detail' = "none"
    /\ pace' = "none"
    /\ burst' = FALSE
    /\ response' = Received(Unknown)
    /\ items' = <<>>
    /\ fetches' = 0
    /\ outcome' = "running"
    /\ file_at_start' = files[s]
    /\ pc' = "while"
    /\ UNCHANGED <<files, book_id>>

Invoke(s, m, p) ==
    /\ pc = "idle"
    /\ stream' = s
    /\ max_comments' = m
    /\ comments_per_page' = p
    /\ existing_ids' = LoadExistingIds(files[s])
    /\ new_count' = 0
    /\ page_count' = 0
    /\ page_new_count' = 0
    /\ page_failed' = FALSE
    /\ detail' = "none"
    /\ pace' = "none"
    /\ burst' = FALSE
    /\ response' = Received(Unknown)
    /\ items' = <<>>
    /\ fetches' = 0
    /\ outcome' = "running"
    /\ file_at_start' = files[s]
    /\ pc' = "while"
    /\ UNCHANGED <<files, book_id>>

\* An invocation of the collector with any arguments.
StartCollector(s, m, p) ==
    /\ runs < MaxRuns
    /\ runs' = runs + 1
    /\ Invoke(s, m, p)
    /\ UNCHANGED <<server, script>>
    /\ UNCHANGED outside_collector

\* while page_count < max_pages and new_count < max_comments
LoopCondition ==
    /\ page_count < MaxPages(max_comments, comments_per_page)
    /\ new_count < max_comments

\* The while condition is false: the collector returns.
LoopExit ==
    /\ pc = "while"
    /\ ~LoopCondition
    /\ pc' = "idle"
    /\ outcome' = "page_limit"
    /\ UNCHANGED <<files, server, book_id, stream, max_comments, comments_per_page,
                   existing_ids, new_count, page_count, page_new_count, page_failed,
                   detail, pace, burst, response, items, fetches, file_at_start,
                   runs, script>>
    /\ UNCHANGED outside_collector

\* A request made now follows the last one with no sleep in between.
BackToBack(p) == p = "request"

\* What the loop body does with the response: "except Exception: break",
\* "if not items: break", else page_new_count = 0 and the for loop.
HandleResponseSkipsEmptyPage(resp) ==
    IF resp.kind = "exception"
    THEN pc' = "idle" /\ outcome' = "error" /\ UNCHANGED <<items, page_new_count, page_count>>
    ELSE IF resp.items = <<>>
    THEN /\ pc' = "while"
         /\ page_count' = page_count + 1
         /\ UNCHANGED <<items, page_new_count, outcome>>
    ELSE /\ pc' = "for"
         /\ items' = resp.items
         /\ page_new_count' = 0
         /\ UNCHANGED <<outcome, page_count>>

HandleResponse(resp) ==
    IF resp.kind = "exception"
    THEN pc' = "idle" /\ outcome' = "error" /\ UNCHANGED <<items, page_new_count, page_count>>
    ELSE IF resp.items = <<>>
    THEN pc' = "idle" /\ outcome' = "exhausted" /\ UNCHANGED <<items, page_new_count, page_count>>
    ELSE /\ pc' = "for"
         /\ items' = resp.items
         /\ page_new_count' = 0
         /\ UNCHANGED <<outcome, page_count>>

\* One turn of the while loop up to the for loop: requests.get with
\* start = page_count * comments_per_page, then soup.select.
FetchPage(resp) ==
    /\ pc = "while"
    /\ LoopCondition
    /\ response' = Received(resp)
    /\ fetches' = fetches + 1
    /\ pace' = "request"
    /\ burst' = (burst \/ BackToBack(pace))
    /\ page_failed' = FALSE
    /\ detail' = "none"
    /\ HandleResponse(resp)
    /\ UNCHANGED <<files, server, book_id, stream, max_comments, comments_per_page,
                   existing_ids, new_count, file_at_start, runs, script>>
    /\ UNCHANGED outside_collector

\* The for loop goes to its next item, or ends when none is left.
NextItem ==
    /\ items' = Tail(items)
    /\ pc' = IF Tail(items) = <<>> THEN "endpage" ELSE "for"

\* "if not review_id or review_id in existing_ids: continue"
SkippedIgnoresIndex(item, index) == item.id = 0

Skipped(item, index) == item.id = 0 \/ item.id \in index

SkipItem ==
    /\ pc = "for"
    /\ ~Head(items).raises
    /\ Skipped(Head(items), existing_ids)
    /\ NextItem
    /\ detail' = "none"
    /\ UNCHANGED <<files, server, book_id, stream, max_comments, comments_per_page,
                   existing_ids, new_count, page_count, page_new_count, page_failed,
                   pace, burst, response, fetches, outcome, file_at_start, runs,
                   script>>
    /\ UNCHANGED outside_collector

\* "except Exception as e: continue" of the per-item try
ItemRaisesAbortsPage ==
    /\ pc = "for"
    /\ Head(items).raises
    /\ items' = <<>>
    /\ pc' = "endpage"
    /\ detail' = "none"
    /\ UNCHANGED <<files, server, book_id, stream, max_comments, comments_per_page,
                   existing_ids, new_count, page_count, page_new_count, page_failed,
                   pace, burst, response, fetches, outcome, file_at_start, runs,
                   script>>
    /\ UNCHANGED outside_collector

ItemRaises ==
    /\ pc = "for"
    /\ Head(items).raises
    /\ NextItem
    /\ detail' = "none"
    /\ UNCHANGED <<files, server, book_id, stream, max_comments, comments_per_page,
                   existing_ids, new_count, page_count, page_new_count, page_failed,
                   pace, burst, response, fetches, outcome, file_at_start, runs,
                   script>>
    /\ UNCHANGED outside_collector

\* The pace after the secondary request: none made, or a request that
\* raised, or a request followed by time.sleep(random.uniform(1, 2)).
AfterDetail(p, d) ==
    IF d = "skipped" THEN p
    ELSE IF d = "failed" THEN "request"
    ELSE "delay"

\* The record is built (for a review, with the secondary request) and handed
\* to _append_to_jsonl; on True the id joins the index and the counters
\* grow; "if new_count >= max_comments: break".
PersistItemNoTargetBreak(ok, d) ==
    /\ pc = "for"
    /\ ~Head(items).raises
    /\ ~Skipped(Head(items), existing_ids)
    /\ d \in Details(stream)
    /\ detail' = d
    /\ pace' = AfterDetail(pace, d)
    /\ burst' = (burst \/ (d # "skipped" /\ BackToBack(pace)))
    /\ page_failed' = (page_failed \/ ~ok)
    /\ files' = [files EXCEPT ![stream] =
                    AppendToJsonl(@, WithDetail(RecordOf(stream, Head(items).id, book_id), d), ok)]
    /\ existing_ids' = IF ok THEN existing_ids \cup {Head(items).id} ELSE existing_ids
    /\ new_count' = IF ok THEN new_count + 1 ELSE new_count
    /\ page_new_count' = IF ok THEN page_new_count + 1 ELSE page_new_count
    /\ NextItem
    /\ UNCHANGED <<server, book_id, stream, max_comments, comments_per_page,
                   page_count, response, fetches, outcome, file_at_start, runs,
                   script>>
    /\ UNCHANGED outside_collector

PersistItemCountsFailedWrite(ok, d) ==
    /\ pc = "for"
    /\ ~Head(items).raises
    /\ ~Skipped(Head(items), existing_ids)
    /\ d \in Details(stream)
    /\ detail' = d
    /\ pace' = AfterDetail(pace, d)
    /\ burst' = (burst \/ (d # "skipped" /\ BackToBack(pace)))
    /\ page_failed' = (page_failed \/ ~ok)
    /\ files' = [files EXCEPT ![stream] =
                    AppendToJsonl(@, WithDetail(RecordOf(stream, Head(items).id, book_id), d), ok)]
    /\ existing_ids' = existing_ids \cup {Head(items).id}
    /\ new_count' = new_count + 1
    /\ page_new_count' = page_new_count + 1
    /\ IF new_count' >= max_comments
       THEN pc' = "endpage" /\ items' = <<>>
       ELSE NextItem
    /\ UNCHANGED <<server, book_id, stream, max_comments, comments_per_page,
                   page_count, response, fetches, outcome, file_at_start, runs,
                   script>>
    /\ UNCHANGED outside_collector

PersistItem(ok, d) ==
    /\ pc = "for"
    /\ ~Head(items).raises
    /\ ~Skipped(Head(items), existing_ids)
    /\ d \in Details(stream)
    /\ detail' = d
    /\ pace' = AfterDetail(pace, d)
    /\ burst' = (burst \/ (d # "skipped" /\ BackToBack(pace)))
    /\ page_failed' = (page_failed \/ ~ok)
    /\ files' = [files EXCEPT ![stream] =
                    AppendToJsonl(@, WithDetail(RecordOf(stream, Head(items).id, book_id), d), ok)]
    /\ existing_ids' = IF ok THEN existing_ids \cup {Head(items).id} ELSE existing_ids
    /\ new_count' = IF ok THEN new_count + 1 ELSE new_count
    /\ page_new_count' = IF ok THEN page_new_count + 1 ELSE page_new_count
    /\ IF new_count' >= max_comments
       THEN pc' = "endpage" /\ items' = <<>>
       ELSE NextItem
    /\ UNCHANGED <<server, book_id, stream, max_comments, comments_per_page,
                   page_count, response, fetches, outcome, file_at_start, runs,
                   script>>
    /\ UNCHANGED outside_collector

\* After the for loop: page_count += 1; break on a page without new
\* records; break on the target; else sleep and go round the while loop.
AfterForLoopNoStallBreak ==
    /\ page_count' = page_count + 1
    /\ IF new_count >= max_comments
       THEN pc' = "idle" /\ outcome' = "target"
       ELSE pc' = "while" /\ UNCHANGED outcome

AfterForLoopKeepsPage ==
    /\ page_count' = page_count
    /\ IF page_new_count = 0
       THEN pc' = "idle" /\ outcome' = "stalled"
       ELSE IF new_count >= max_comments
       THEN pc' = "idle" /\ outcome' = "target"
       ELSE pc' = "while" /\ UNCHANGED outcome

AfterForLoop ==
    /\ page_count' = page_count + 1
    /\ IF page_new_count = 0
       THEN pc' = "idle" /\ outcome' = "stalled"
       ELSE IF new_count >= max_comments
       THEN pc' = "idle" /\ outcome' = "target"
       ELSE pc' = "while" /\ UNCHANGED outcome

EndPage ==
    /\ pc = "endpage"
    /\ AfterForLoop
    /\ pace' = IF pc' = "while" THEN "delay" ELSE pace
    /\ page_failed' = FALSE
    /\ detail' = "none"
    /\ UNCHANGED <<files, server, book_id, stream, max_comments, comments_per_page,
                   existing_ids, new_count, page_new_count, burst, response, items,
                   fetches, file_at_start, runs, script>>
    /\ UNCHANGED outside_collector

Next ==
    \/ \E fetched \in BOOLEAN, ok \in BOOLEAN : GetBookInfo(fetched, ok)
    \/ \E m \in 1..MaxTarget, p \in 1..MaxTarget :
            StartCollector(stream, m, p)
    \/ LoopExit
    \/ \E resp \in Responses : FetchPage(resp)
    \/ SkipItem
    \/ ItemRaises
    \/ \E ok \in BOOLEAN : PersistItem(ok, "skipped")
    \/ EndPage

\* The collectors invoked with fetch_full_content off: the secondary request
\* changes the text of a review record and the pace of the requests, and
\* nothing of the loop.
Spec == Init /\ [][Next]_vars

\* ------------------------------- get_book_review with fetch_full_content
\* The review collector as run calls it, fetch_full_content left at its
\* default True, once on an empty output directory.
DetailInit == Init /\ stream = "reviews"

StartReviews(m, p) == runs = 0 /\ StartCollector("reviews", m, p)

DetailNext ==
    \/ \E m \in 1..MaxTarget, p \in 1..MaxTarget : StartReviews(m, p)
    \/ LoopExit
    \/ \E resp \in Responses : FetchPage(resp)
    \/ SkipItem
    \/ ItemRaises
    \/ \E ok \in BOOLEAN, d \in DetailOutcomes : PersistItem(ok, d)
    \/ EndPage

SpecDetail == DetailInit /\ [][DetailNext]_vars

\* ------------------------------------------------------ the loader alone
\* _load_existing_ids applied to any file of up to MaxLines lines: records
\* of the three streams, an object with none of the keys, a blank line, a
\* line json.loads rejects.
LoaderLines ==
    {BadLine, BlankLine, JsonLine(Absent, FALSE, Absent)}
        \cup {BookInfoRecord(b) : b \in BookIds}
        \cup {CommentRecord(r, b) : r \in 0..MaxId, b \in BookIds}
        \cup {ReviewRecord(r, b) : r \in 0..MaxId, b \in BookIds}

LoadInit ==
    /\ CollectorInit
    /\ MainIdle
    /\ AppendIdle
    /\ LibIdle
    /\ load_file \in SeqsUpTo(LoaderLines, MaxLines)
    /\ load_result = NotLoaded

ApplyLoad ==
    /\ load_result = NotLoaded
    /\ load_result' = LoadExistingIds(load_file)
    /\ UNCHANGED <<load_file, append_vars, collector_vars, main_vars, lib_vars>>

LoadNext == ApplyLoad

SpecLoad == LoadInit /\ [][LoadNext]_vars

\* ----------------------------------------------- _append_to_jsonl alone
\* What the disk does with the write of the line: it takes it, it refuses
\* it (open or write raises), or it takes a part of it before the flush on
\* close raises, which leaves bytes that are no complete line.
WriteOutcomes == {"written", "failed", "torn"}

\* "return True" ends the try block; "except Exception" returns False.
AppendCallReportsTrue(f, rec, w) ==
    [file |-> IF w = "torn" THEN Append(f, BadLine) ELSE AppendToJsonl(f, rec, w = "written"),
     returned |-> "True"]

AppendCall(f, rec, w) ==
    [file |-> IF w = "torn" THEN Append(f, BadLine) ELSE AppendToJsonl(f, rec, w = "written"),
     returned |-> IF w = "written" THEN "True" ELSE "False"]

\* The records the collectors hand to _append_to_jsonl.
Records ==
    {BookInfoRecord(b) : b \in BookIds}
        \cup {WithDetail(RecordOf(s, r, b), d) :
                    s \in ListStreams, r \in Ids, b \in BookIds, d \in DetailOutcomes}

\* The file does not exist, or holds a line.
AppendInit ==
    /\ CollectorInit
    /\ LoaderIdle
    /\ MainIdle
    /\ LibIdle
    /\ append_call \in [file : {<<>>} \cup {<<l>> : l \in LoaderLines},
                         record : Records,
                         disk : WriteOutcomes]
    /\ append_result = NotCalled

ApplyAppend ==
    /\ append_result = NotCalled
    /\ append_result' = AppendCall(append_call.file, append_call.record, append_call.disk)
    /\ UNCHANGED <<append_call, loader_vars, collector_vars, main_vars, lib_vars>>

AppendNext == ApplyAppend

SpecAppend == AppendInit /\ [][AppendNext]_vars

\* ------------------------------------------------------ scripted scenarios
\* The collectors against a server and a disk that do what a scenario says:
\* every request is answered with the scripted page, every write succeeds.
PageSize == 20
Target45 == 2 * PageSize + 5

IdRun(a, b) == [i \in 1..(b - a + 1) |-> Item(a + i - 1)]

\* Page 1 and page 2 hold PageSize new records each, page 3 five new ones
\* followed by fifteen seen on page 1; a fourth page would hold new ones.
Scenario45 ==
    <<[max |-> Target45, per |-> PageSize,
       pages |-> [q \in 0..3 |->
                    IF q = 2
                    THEN Page("200", IdRun(2 * PageSize + 1, Target45) \o IdRun(1, PageSize - 5))
                    ELSE Page("200", IdRun(q * PageSize + 1, (q + 1) * PageSize))]]>>

\* A first run persists the ids 1, 2, 3; then page 1 returns 1, 2, 3 and 4,
\* in any order, to a run with target count 1.
Orders(S) ==
    {q \in [1..Cardinality(S) -> S] : \A i, j \in 1..Cardinality(S) : i # j => q[i] # q[j]}

ScenarioRerun(order) ==
    <<[max |-> 3, per |-> PageSize, pages |-> [q \in {0} |-> Page("200", IdRun(1, 3))]],
      [max |-> 1, per |-> PageSize,
       pages |-> [q \in {0} |-> Page("200", [i \in 1..4 |-> Item(order[i])])]]>>

\* A page of three items, each one a record 1 or 2 or an item whose fields
\* cannot be extracted, to a run that would take them all.
FaultyPages == [1..3 -> {RaisingItem, Item(1), Item(2)}]

ScenarioFaultyRecords(page) ==
    <<[max |-> 3, per |-> PageSize, pages |-> [q \in {0} |-> Page("200", page)]]>>

\* A first run persists the two records of page 0 and is over; the run
\* after it, which would take four, gets page 0 again and, if it asks, a
\* page 1 with no, one or two records it has not seen.
LaterPages == {<<>>, IdRun(3, 3), IdRun(3, 4)}

ScenarioInterrupted(later) ==
    <<[max |-> 2, per |-> 2, pages |-> [q \in {0} |-> Page("200", IdRun(1, 2))]],
      [max |-> 4, per |-> 2,
       pages |-> [q \in {0, 1} |-> IF q = 0 THEN Page("200", IdRun(1, 2))
                                            ELSE Page("200", later)]]>>

Scripts ==
    {Scenario45}
        \cup {ScenarioRerun(order) : order \in Orders(1..4)}
        \cup {ScenarioFaultyRecords(page) : page \in FaultyPages}
        \cup {ScenarioInterrupted(later) : later \in LaterPages}

ScriptedInit ==
    /\ files = [s \in Streams |-> <<>>]
    /\ server = [p \in PageIndexes |-> Unknown]
    /\ pc = "idle"
    /\ stream \in ListStreams
    /\ book_id \in BookIds
    /\ max_comments = 1
    /\ comments_per_page = 1
    /\ existing_ids = {}
    /\ new_count = 0
    /\ page_count = 0
    /\ page_new_count = 0
    /\ page_failed = FALSE
    /\ detail = "none"
    /\ pace = "none"
    /\ burst = FALSE
    /\ response = Received(Unknown)
    /\ items = <<>>
    /\ fetches = 0
    /\ outcome = "none"
    /\ runs = 0
    /\ file_at_start = <<>>
    /\ LoaderIdle
    /\ AppendIdle
    /\ MainIdle
    /\ LibIdle

ScenarioInit == ScriptedInit /\ script \in Scripts

\* The next invocation of the script, on the stream the scenario is about.
ScriptedStart ==
    /\ runs < Len(script)
    /\ Invoke(stream, script[runs + 1].max, script[runs + 1].per)
    /\ server' = script[runs + 1].pages
    /\ runs' = runs + 1
    /\ UNCHANGED script
    /\ UNCHANGED outside_collector

ScriptedFetch == FetchPage(server[page_count])

ScriptedPersist == PersistItem(TRUE, "skipped")

ScenarioNext ==
    \/ ScriptedStart
    \/ ScriptedFetch
    \/ SkipItem
    \/ ItemRaises
    \/ ScriptedPersist
    \/ EndPage

SpecScenario == ScenarioInit /\ [][ScenarioNext]_vars

\* A collector invoked twice with the same arguments against a server that
\* answers each page the same way both times, on a disk that takes every
\* write.
Repeated(m, p, pages) ==
    <<[max |-> m, per |-> p, pages |-> pages], [max |-> m, per |-> p, pages |-> pages]>>

RepeatInit ==
    /\ ScriptedInit
    /\ script \in {Repeated(m, p, pages) :
                        m \in 1..MaxTarget, p \in 1..MaxTarget,
                        pages \in [PageIndexes -> Responses]}

RepeatNext ==
    \/ ScriptedStart
    \/ ScriptedFetch
    \/ SkipItem
    \/ ItemRaises
    \/ ScriptedPersist
    \/ EndPage
    \/ LoopExit

SpecRepeat == RepeatInit /\ [][RepeatNext]_vars

\* ------------------------------------------- comments without a native id
\* A comment item with no data-cid and no vote-count id gets
\* review_id = f"{hash(content_text + time_text)}".  The texts are what
\* content_text + time_text can be; hash() of a str is keyed by a secret the
\* interpreter draws when it starts (PYTHONHASHSEED is not set anywhere), so
\* each process has its own function from texts to hash values.
Texts == 1..2
HashValues == (MaxId + 1)..(MaxId + 3)
ProcessHashes == [Texts -> HashValues]

FallbackId(h, text) == h[text]
FallbackItem(h, text) == Item(FallbackId(h, text))

FallbackPages(h, texts) ==
    [q \in PageIndexes |->
        IF q = 0
        THEN Page("200", [i \in 1..Len(texts) |-> FallbackItem(h, texts[i])])
        ELSE Page("200", <<>>)]

\* get_book_comments run in two processes, one after the other, on one
\* directory; both get the same page of comments without native ids.
ScenarioFallback(m, p, texts, h1, h2) ==
    <<[max |-> m, per |-> p, pages |-> FallbackPages(h1, texts), texts |-> texts],
      [max |-> m, per |-> p, pages |-> FallbackPages(h2, texts), texts |-> texts]>>

FallbackInit ==
    /\ ScriptedInit
    /\ stream = "comments"
    /\ script \in {ScenarioFallback(m, p, texts, h1, h2) :
                        m \in 1..MaxTarget, p \in 1..MaxTarget,
                        texts \in SeqsUpTo(Texts, 2) \ {<<>>},
                        h1 \in ProcessHashes, h2 \in ProcessHashes}

FallbackNext ==
    \/ ScriptedStart
    \/ ScriptedFetch
    \/ SkipItem
    \/ ScriptedPersist
    \/ EndPage
    \/ LoopExit

SpecFallback == FallbackInit /\ [][FallbackNext]_vars

\* ------------------------------------------------ main, crawl_single_book
\* What the world holds for a book name: "ok" (the search finds the book and
\* its pages hold records), "not_found" (the search finds no link, or
\* fails), "no_data" (the book is found but every later request fails or
\* comes back without items), "bad_dir" (os.makedirs raises for the name).
SiteKinds == {"ok", "not_found", "no_data", "bad_dir"}
BookNames == 1..MaxBooks
Tasks == 1..Len(book_names)

MainInit ==
    /\ CollectorInit
    /\ LoaderIdle
    /\ AppendIdle
    /\ LibIdle
    /\ book_names \in [1..MaxBooks -> BookNames]
    /\ site \in [BookNames -> SiteKinds]
    /\ workers \in 1..MaxWorkers
    /\ task_pc = [t \in 1..MaxBooks |-> "queued"]
    /\ task_result = [t \in 1..MaxBooks |-> "none"]
    /\ handlers = 1
    /\ output = [n \in BookNames |-> {}]
    /\ success_count = 0
    /\ failed_books = <<>>
    /\ collected = {}
    /\ exit_status = NotExited

Running == {t \in Tasks : task_pc[t] \notin {"queued", "returned"}}

OfTask(t) == site[book_names[t]]

\* A free worker takes the oldest queued task; crawl_single_book constructs
\* the scraper, whose _setup_logger starts with logger.remove().
TaskConstruct(t) ==
    /\ task_pc[t] = "queued"
    /\ \A u \in Tasks : u < t => task_pc[u] # "queued"
    /\ Cardinality(Running) < workers
    /\ handlers' = 0
    /\ task_pc' = [task_pc EXCEPT ![t] = "logger"]
    /\ UNCHANGED <<book_names, site, workers, task_result, output, success_count,
                   failed_books, collected>>
    /\ UNCHANGED <<collector_vars, store_vars, exit_status, lib_vars>>

\* _setup_logger adds its two sinks; then os.makedirs(output), which raises
\* for a name no directory can have: the except clause returns (False, name).
TaskSetup(t) ==
    /\ task_pc[t] = "logger"
    /\ handlers' = handlers + 2
    /\ IF OfTask(t) = "bad_dir"
       THEN /\ task_pc' = [task_pc EXCEPT ![t] = "returned"]
            /\ task_result' = [task_result EXCEPT ![t] = "failed"]
       ELSE /\ task_pc' = [task_pc EXCEPT ![t] = "search"]
            /\ UNCHANGED task_result
    /\ UNCHANGED <<book_names, site, workers, output, success_count, failed_books,
                   collected>>
    /\ UNCHANGED <<collector_vars, store_vars, exit_status, lib_vars>>

\* run: search_book_id; without a book id run returns None, and
\* crawl_single_book, which does not look at what run returns, (True, name).
TaskSearchReportsNotFound(t) ==
    /\ task_pc[t] = "search"
    /\ IF OfTask(t) = "not_found"
       THEN /\ task_pc' = [task_pc EXCEPT ![t] = "returned"]
            /\ task_result' = [task_result EXCEPT ![t] = "failed"]
       ELSE /\ task_pc' = [task_pc EXCEPT ![t] = "book_info"]
            /\ UNCHANGED task_result
    /\ UNCHANGED <<book_names, site, workers, handlers, output, success_count,
                   failed_books, collected>>
    /\ UNCHANGED <<collector_vars, store_vars, exit_status, lib_vars>>

TaskSearch(t) ==
    /\ task_pc[t] = "search"
    /\ IF OfTask(t) = "not_found"
       THEN /\ task_pc' = [task_pc EXCEPT ![t] = "returned"]
            /\ task_result' = [task_result EXCEPT ![t] = "ok"]
       ELSE /\ task_pc' = [task_pc EXCEPT ![t] = "book_info"]
            /\ UNCHANGED task_result
    /\ UNCHANGED <<book_names, site, workers, handlers, output, success_count,
                   failed_books, collected>>
    /\ UNCHANGED <<collector_vars, store_vars, exit_status, lib_vars>>

AfterStream(s) ==
    IF s = "book_info" THEN "comments" ELSE IF s = "comments" THEN "reviews" ELSE "returned"

\* run: get_book_info, get_book_comments, get_book_review in turn, each on
\* the directory of the book name; none of them raises, whatever the site
\* answers, and run does not look at what they return.
TaskCollect(t, s) ==
    /\ task_pc[t] = s
    /\ output' = IF OfTask(t) = "ok"
                 THEN [output EXCEPT ![book_names[t]] = @ \cup {s}]
                 ELSE output
    /\ task_pc' = [task_pc EXCEPT ![t] = AfterStream(s)]
    /\ task_result' = IF AfterStream(s) = "returned"
                      THEN [task_result EXCEPT ![t] = "ok"]
                      ELSE task_result
    /\ UNCHANGED <<book_names, site, workers, handlers, success_count, failed_books,
                   collected>>
    /\ UNCHANGED <<collector_vars, store_vars, exit_status, lib_vars>>

\* main: "for future in as_completed(futures)": success, name = future.result()
TallyForgetsFailure(t) ==
    /\ task_pc[t] = "returned"
    /\ t \notin collected
    /\ collected' = collected \cup {t}
    /\ IF task_result[t] = "ok"
       THEN success_count' = success_count + 1 /\ UNCHANGED failed_books
       ELSE UNCHANGED <<success_count, failed_books>>
    /\ UNCHANGED <<book_names, site, workers, task_pc, task_result, handlers, output>>
    /\ UNCHANGED <<collector_vars, store_vars, exit_status, lib_vars>>

Tally(t) ==
    /\ task_pc[t] = "returned"
    /\ t \notin collected
    /\ collected' = collected \cup {t}
    /\ IF task_result[t] = "ok"
       THEN success_count' = success_count + 1 /\ UNCHANGED failed_books
       ELSE failed_books' = Append(failed_books, book_names[t]) /\ UNCHANGED success_count
    /\ UNCHANGED <<book_names, site, workers, task_pc, task_result, handlers, output>>
    /\ UNCHANGED <<collector_vars, store_vars, exit_status, lib_vars>>

\* main after the pool has drained: the summary is logged and main returns
\* None, whatever failed_books holds; "if __name__ == '__main__': main()"
\* then lets the interpreter end with status 0.
MainReturn ==
    /\ book_names # <<>>
    /\ collected = Tasks
    /\ exit_status = NotExited
    /\ exit_status' = 0
    /\ UNCHANGED <<book_names, site, workers, task_pc, task_result, handlers, output,
                   success_count, failed_books, collected>>
    /\ UNCHANGED <<collector_vars, store_vars, lib_vars>>

MainNext ==
    \/ \E t \in Tasks : TaskConstruct(t)
    \/ \E t \in Tasks : TaskSetup(t)
    \/ \E t \in Tasks : TaskSearch(t)
    \/ \E t \in Tasks, s \in Streams : TaskCollect(t, s)
    \/ \E t \in Tasks : Tally(t)
    \/ MainReturn

SpecMain == MainInit /\ [][MainNext]_vars

\* ---------------------------------------------------------- logger_config
\* setup_logger and get_logger called from any thread, a step of a call at
\* a time: nothing in the module holds a lock, so the steps of two calls
\* interleave freely.
\* A thread calls setup_logger(module_name).
CallSetupLogger(th, m) ==
    /\ thread_pc[th] = "idle"
    /\ thread_pc' = [thread_pc EXCEPT ![th] = "setup"]
    /\ thread_args' = [thread_args EXCEPT ![th] = m]
    /\ UNCHANGED <<logger_configured, sinks>>
    /\ UNCHANGED <<collector_vars, store_vars, main_vars, pool_vars>>

\* A thread calls get_logger().
CallGetLogger(th) ==
    /\ thread_pc[th] = "idle"
    /\ thread_pc' = [thread_pc EXCEPT ![th] = "get"]
    /\ UNCHANGED <<logger_configured, sinks, thread_args>>
    /\ UNCHANGED <<collector_vars, store_vars, main_vars, pool_vars>>

\* get_logger: "if not _logger_configured: setup_logger()", with the
\* default module_name.
GetLoggerCheck(th) ==
    /\ thread_pc[th] = "get"
    /\ IF logger_configured
       THEN /\ thread_pc' = [thread_pc EXCEPT ![th] = "idle"]
            /\ UNCHANGED thread_args
       ELSE /\ thread_pc' = [thread_pc EXCEPT ![th] = "setup"]
            /\ thread_args' = [thread_args EXCEPT ![th] = "app"]
    /\ UNCHANGED <<logger_configured, sinks>>
    /\ UNCHANGED <<collector_vars, store_vars, main_vars, pool_vars>>

\* setup_logger: "if _logger_configured: return logger"
SetupLoggerCheck(th) ==
    /\ thread_pc[th] = "setup"
    /\ thread_pc' = [thread_pc EXCEPT ![th] = IF logger_configured THEN "idle" ELSE "remove"]
    /\ UNCHANGED <<logger_configured, sinks, thread_args>>
    /\ UNCHANGED <<collector_vars, store_vars, main_vars, pool_vars>>

\* logger.remove(): every handler goes.
LoggerRemove(th) ==
    /\ thread_pc[th] = "remove"
    /\ sinks' = <<>>
    /\ thread_pc' = [thread_pc EXCEPT ![th] = "add_stdout"]
    /\ UNCHANGED <<logger_configured, thread_args>>
    /\ UNCHANGED <<collector_vars, store_vars, main_vars, pool_vars>>

\* logger.add(sys.stdout, ...)
LoggerAddStdout(th) ==
    /\ thread_pc[th] = "add_stdout"
    /\ sinks' = Append(sinks, [sink |-> "stdout", module |-> "none"])
    /\ thread_pc' = [thread_pc EXCEPT ![th] = "add_file"]
    /\ UNCHANGED <<logger_configured, thread_args>>
    /\ UNCHANGED <<collector_vars, store_vars, main_vars, pool_vars>>

\* logger.add(str(log_file), ...), the file named after module_name
LoggerAddFile(th) ==
    /\ thread_pc[th] = "add_file"
    /\ sinks' = Append(sinks, [sink |-> "file", module |-> thread_args[th]])
    /\ thread_pc' = [thread_pc EXCEPT ![th] = "flag"]
    /\ UNCHANGED <<logger_configured, thread_args>>
    /\ UNCHANGED <<collector_vars, store_vars, main_vars, pool_vars>>

\* _logger_configured = True; return logger
SetConfigured(th) ==
    /\ thread_pc[th] = "flag"
    /\ logger_configured' = TRUE
    /\ thread_pc' = [thread_pc EXCEPT ![th] = "idle"]
    /\ UNCHANGED <<sinks, thread_args>>
    /\ UNCHANGED <<collector_vars, store_vars, main_vars, pool_vars>>

LoggerNext ==
    \/ \E th \in Threads, m \in Modules : CallSetupLogger(th, m)
    \/ \E th \in Threads : CallGetLogger(th)
    \/ \E th \in Threads : GetLoggerCheck(th)
    \/ \E th \in Threads : SetupLoggerCheck(th)
    \/ \E th \in Threads : LoggerRemove(th)
    \/ \E th \in Threads : LoggerAddStdout(th)
    \/ \E th \in Threads : LoggerAddFile(th)
    \/ \E th \in Threads : SetConfigured(th)

SpecLogger == Init /\ [][LoggerNext]_vars

\* -------------------------------------------------------------- ProxyPool
\* Proxy URLs are 1..MaxProxies; Foreign is a URL that was never loaded.
ProxyUrls == 1..MaxProxies
Foreign == MaxProxies + 1

Count(q, x) == Cardinality({i \in 1..Len(q) : q[i] = x})
Elems(q) == {q[i] : i \in 1..Len(q)}

\* {"http": proxy, "https": proxy}
ProxyDict(p) == [http |-> p, https |-> p]

\* [p for p in list if p not in self.failed_proxies]
Available(list, failed) == SelectSeq(list, LAMBDA p : p \notin failed)

\* get_proxy: a random choice among the validated proxies not marked
\* failed; without any, among the loaded ones not marked failed; else None.
GetProxyFallsBackToFailed(loaded, valid, failed) ==
    IF valid # <<>> /\ Available(valid, failed) # <<>>
    THEN {Some(ProxyDict(p)) : p \in Elems(Available(valid, failed))}
    ELSE IF loaded # <<>>
    THEN {Some(ProxyDict(p)) : p \in Elems(loaded)}
    ELSE {None}

GetProxyResults(loaded, valid, failed) ==
    IF valid # <<>> /\ Available(valid, failed) # <<>>
    THEN {Some(ProxyDict(p)) : p \in Elems(Available(valid, failed))}
    ELSE IF loaded # <<>> /\ Available(loaded, failed) # <<>>
    THEN {Some(ProxyDict(p)) : p \in Elems(Available(loaded, failed))}
    ELSE {None}

GetProxy ==
    /\ proxy' \in GetProxyResults(proxies, valid_proxies, failed_proxies)
    /\ pool_op' = "get_proxy"
    /\ UNCHANGED <<proxies, valid_proxies, failed_proxies>>
    /\ UNCHANGED <<collector_vars, store_vars, main_vars, logger_vars>>

\* What callers hand to mark_proxy_failed: None, a dict get_proxy could
\* have made (of a loaded URL or of another one), a dict without "http".
ProxyArguments ==
    {None}
        \cup {Some(ProxyDict(p)) : p \in ProxyUrls \cup {Foreign}}
        \cup {Some([https |-> p]) : p \in ProxyUrls}

\* mark_proxy_failed: if proxy_dict and "http" in proxy_dict:
\*     self.failed_proxies.add(proxy_dict["http"])
MarkProxyFailed(d) ==
    /\ failed_proxies' = IF d # None /\ "http" \in DOMAIN d[1]
                         THEN failed_proxies \cup {d[1].http}
                         ELSE failed_proxies
    /\ pool_op' = "mark_proxy_failed"
    /\ UNCHANGED <<proxies, valid_proxies, proxy>>
    /\ UNCHANGED <<collector_vars, store_vars, main_vars, logger_vars>>

\* get_stats
GetStats(loaded, valid, failed) ==
    [total |-> Len(loaded),
     valid |-> Len(valid),
     failed |-> Cardinality(failed),
     available |-> Len(Available(valid, failed))]

\* The pool after __init__: the lines of the proxy file, in file order
\* (a URL may be there twice); those of them whose validation request
\* came back with status 200, in the order the requests completed.
PoolInit ==
    /\ CollectorInit
    /\ LoaderIdle
    /\ AppendIdle
    /\ MainIdle
    /\ LoggerIdle
    /\ proxies \in SeqsUpTo(ProxyUrls, MaxProxies)
    /\ valid_proxies \in {v \in SeqsUpTo(ProxyUrls, MaxProxies) :
                             \A p \in ProxyUrls : Count(v, p) <= Count(proxies, p)}
    /\ failed_proxies = {}
    /\ proxy = None
    /\ pool_op = "none"

PoolNext ==
    \/ GetProxy
    \/ \E d \in ProxyArguments : MarkProxyFailed(d)

SpecPool == PoolInit /\ [][PoolNext]_vars

\* ================================================================ claims
\* The identifier a stream's records are known by: book_id in
\* book_info.jsonl, review_id in comments.jsonl and reviews.jsonl.
OwnId(s, line) == IF s = "book_info" THEN line.book_id ELSE line.review_id
OwnIds(s, f) == {OwnId(s, f[i]) : i \in 1..Len(f)}
NoDuplicateIds(s, f) == \A i, j \in 1..Len(f) : i # j => OwnId(s, f[i]) # OwnId(s, f[j])

CeilDiv(a, b) == IF a % b = 0 THEN a \div b ELSE (a \div b) + 1

\* C1: after any sequence of get_book_info, get_book_comments and
\* get_book_review invocations on one output directory, no stream file
\* holds a record identifier more than once.
C1_RecordIdsUnique == \A s \in Streams : NoDuplicateIds(s, files[s])

\* C2: a collector run that repeats the previous run of the same collector
\* (same arguments, same server responses, every write succeeding) appends
\* nothing and ends by stall or exhaustion (a fetch that raises, as it did
\* the first time, counted with exhaustion), never by reaching its target.
C2_SecondRunAppendsNothing ==
    runs = 2 =>
        /\ files[stream] = file_at_start
        /\ new_count = 0
        /\ outcome \in {"running", "stalled", "exhausted", "error"}

\* C3: a collector invocation makes at most ceil(max_comments /
\* comments_per_page) list-page requests, and terminates: every step of a
\* run lowers a natural-number measure of the work that is left.
RunMeasure ==
    LET pageCost == MaxItems + 3
        left == CeilDiv(max_comments, comments_per_page) - page_count
    IN  IF pc = "idle" THEN 0
        ELSE left * pageCost +
             (IF pc = "while" THEN pageCost - 1
              ELSE IF pc = "for" THEN Len(items) + 1
              ELSE 1)

C3_BoundedFetchesAndTermination ==
    [][/\ fetches' <= CeilDiv(max_comments', comments_per_page')
       /\ pc # "idle" => (RunMeasure' < RunMeasure /\ RunMeasure' >= 0)]_vars

\* C3 witness: a run that used every page it was allowed and returned.
C3_Witness ==
    /\ pc = "idle"
    /\ outcome = "target"
    /\ fetches > 1
    /\ fetches = CeilDiv(max_comments, comments_per_page)

\* C4: when exactly one of the N targets given to main cannot be collected,
\* the final tally is success_count = N - 1 and failed_books = [K], and the
\* other targets have all their output files written.
Drained == book_names # <<>> /\ collected = Tasks
FailingTasks == {t \in Tasks : OfTask(t) # "ok"}

C4_OneFailingTargetIsTheOneReported ==
    (Drained /\ Cardinality(FailingTasks) = 1) =>
        \A k \in FailingTasks :
            /\ success_count = Len(book_names) - 1
            /\ failed_books = <<book_names[k]>>
            /\ \A t \in Tasks \ {k} : output[book_names[t]] = Streams

\* C5: page size 20, target 45, an empty stream file; page 1 and page 2
\* yield 20 new records each, page 3 five new ones then fifteen seen: the
\* collector stops after the third request with exactly the 45 records
\* appended, in order, because the target is reached.
C5_Target45ReachedOnThirdPage ==
    (script = Scenario45 /\ runs = 1) =>
        /\ fetches <= 3
        /\ pc # "idle" => ENABLED ScenarioNext
        /\ pc = "idle" =>
              /\ fetches = 3
              /\ new_count = Target45
              /\ outcome = "target"
              /\ files[stream] = [i \in 1..Target45 |-> RecordOf(stream, i, book_id)]

C5_Witness == script = Scenario45 /\ runs = 1 /\ pc = "idle" /\ outcome = "target"

\* C6: the stream file holds the ids 1, 2, 3 of a first run; a re-run with
\* target count 1, to which page 1 returns 1, 2, 3 and 4, appends exactly
\* the record 4 and stops at once because the target is reached.
InRerun == (\E order \in Orders(1..4) : script = ScenarioRerun(order)) /\ runs = 2

C6_RerunAppendsOnlyTheNewRecord ==
    InRerun =>
        /\ file_at_start = [i \in 1..3 |-> RecordOf(stream, i, book_id)]
        /\ files[stream] \in {file_at_start, Append(file_at_start, RecordOf(stream, 4, book_id))}
        /\ pc = "idle" =>
              /\ files[stream] = Append(file_at_start, RecordOf(stream, 4, book_id))
              /\ fetches = 1
              /\ outcome = "target"

\* C7: when the first list page yields no items (an HTTP 404 body, say) the
\* collector stops after that one request with nothing accepted, nothing
\* appended, and the loop left as exhausted.
FirstPageEmpty ==
    /\ fetches = 1
    /\ response.kind = "page"
    /\ response.count = 0

C7_EmptyFirstPageExhausts ==
    FirstPageEmpty =>
        /\ pc = "idle"
        /\ new_count = 0
        /\ files[stream] = file_at_start
        /\ outcome = "exhausted"

C7_Witness == FirstPageEmpty /\ response.status = "404" /\ max_comments > 1

\* C8: once a fetched page has contributed no newly accepted record, the
\* loop is left as stalled: the next step returns, without another request
\* and without another append.
C8_ZeroNewPageStalls ==
    [][(pc = "endpage" /\ page_new_count = 0) =>
           /\ pc' = "idle"
           /\ outcome' = "stalled"
           /\ fetches' = fetches
           /\ files' = files]_vars

\* C8 witness: a run stalled although its page budget and its target would
\* have let it go on.
C8_Witness ==
    /\ pc = "idle"
    /\ outcome = "stalled"
    /\ page_count < CeilDiv(max_comments, comments_per_page)
    /\ new_count < max_comments

\* C9: the Dedup Index a collector loads at its start is the set of the
\* stream's own record identifiers in the file.
C9_IndexIsOwnIds ==
    (pc = "while" /\ fetches = 0) => existing_ids = OwnIds(stream, files[stream])

\* C10: a line that does not parse is skipped and loading goes on: the
\* set returned holds the identifier of every line that parses, before or
\* after a malformed one.
C10_LoadSkipsUnparseableLines ==
    load_result # NotLoaded =>
        \A i \in 1..Len(load_file) : LoadExistingIds(<<load_file[i]>>) \subseteq load_result

\* C11: a write that fails does not stop pagination: after _append_to_jsonl
\* has returned False the collector goes on to the next record of the page,
\* and after a page on which a write failed (every write, even) it goes on
\* to the next page unless the page limit or the target count ends the run.
FailedWrite ==
    /\ pc = "for"
    /\ ~Head(items).raises
    /\ ~Skipped(Head(items), existing_ids)
    /\ files' = files

C11_FailedWriteDoesNotStopPagination ==
    [][/\ FailedWrite => (items' = Tail(items) /\ pc' \in {"for", "endpage"})
       /\ (/\ pc = "endpage"
           /\ page_failed
           /\ page_count + 1 < CeilDiv(max_comments, comments_per_page)
           /\ new_count < max_comments) => pc' = "while"]_vars

\* C12: _append_to_jsonl returns (it never raises); it returns True exactly
\* when the file has grown by the one line of the record, and False when the
\* write failed, the file then holding no new complete line.
C12_AppendReturnsWhetherItWrote ==
    append_result # NotCalled =>
        /\ append_result.returned \in {"True", "False"}
        /\ append_result.returned = "True" <=>
              append_result.file = Append(append_call.file, append_call.record)
        /\ append_call.disk # "written" =>
              /\ append_result.returned = "False"
              /\ append_result.file \in
                    {append_call.file, Append(append_call.file, BadLine)}

C12_Witness ==
    /\ append_result # NotCalled
    /\ append_call.disk = "torn"
    /\ append_call.file # <<>>

\* C13: a list-page response with a non-2xx status ends the collection of
\* the stream at that page: the collector returns on it, and so persists no
\* record taken from it.
C13_HttpErrorEndsTheStream ==
    (response.kind = "page" /\ response.status # "200") => pc = "idle"

\* C14: a page that was fetched (2xx) but from which no item can be
\* extracted is skipped: the loop goes on with the next page index.
C14_UnrecognizablePageIsSkipped ==
    [][(/\ pc = "while"
        /\ fetches' = fetches + 1
        /\ response'.kind = "page"
        /\ response'.status = "200"
        /\ response'.count = 0) => (pc' = "while" /\ page_count' = page_count + 1)]_vars

\* C15: persistence is append-only: every step leaves each stream file's
\* content as a prefix of its new content; a request that raises on page k
\* leaves the files as they are and the collector returns.
IsPrefix(f, g) == Len(f) <= Len(g) /\ \A i \in 1..Len(f) : f[i] = g[i]

C15_AppendOnlyAcrossPageErrors ==
    [][/\ \A s \in Streams : IsPrefix(files[s], files'[s])
       /\ (/\ pc = "while"
           /\ fetches' = fetches + 1
           /\ response'.kind = "exception") =>
                (pc' = "idle" /\ outcome' = "error" /\ files' = files)]_vars

\* C15 witness: the request for a later page has raised, and the records
\* accepted on the pages before it are in the file.
C15_Witness ==
    /\ pc = "idle"
    /\ outcome = "error"
    /\ page_count >= 1
    /\ new_count >= 1
    /\ Len(files[stream]) = Len(file_at_start) + new_count

\* C16: an exception raised while one record of a page is processed skips
\* that record only: the for loop goes on with the rest of the page, nothing
\* is written or counted for the record, and the run is not ended by it.
C16_RecordExceptionSkipsOnlyThatRecord ==
    [][(pc = "for" /\ Head(items).raises) =>
           /\ items' = Tail(items)
           /\ pc' = (IF Tail(items) = <<>> THEN "endpage" ELSE "for")
           /\ files' = files
           /\ new_count' = new_count
           /\ outcome' = outcome]_vars

\* C16 witness: the first item of a page raised and a later record of the
\* same page has been appended.
C16_Witness ==
    /\ Len(script) = 1
    /\ runs = 1
    /\ script[1].pages[0].items[1].raises
    /\ fetches = 1
    /\ files[stream] # <<>>

\* C17: in get_book_review with fetch_full_content on, a secondary request
\* that fails does not drop the record: unless the write itself fails, the
\* record is appended and counted, with the content of the list page.
C17_DetailFailureKeepsTheRecord ==
    [][(/\ pc = "for"
        /\ ~Head(items).raises
        /\ ~Skipped(Head(items), existing_ids)
        /\ detail' = "failed") =>
            \/ /\ files'[stream] = Append(files[stream], ReviewRecord(Head(items).id, book_id))
               /\ new_count' = new_count + 1
               /\ Head(items).id \in existing_ids'
            \/ /\ files' = files
               /\ new_count' = new_count
               /\ page_failed']_vars

\* C17 witness: the secondary request has just failed and the record is the
\* last line of reviews.jsonl, with its list-page content.
C17_Witness ==
    /\ stream = "reviews"
    /\ detail = "failed"
    /\ ~page_failed
    /\ files["reviews"] # <<>>
    /\ files["reviews"][Len(files["reviews"])].content = "list"

\* C18: within a collector's run a delay separates every two successive
\* HTTP requests (list pages and secondary requests alike), and the first
\* request is made without a delay before it.
C18_DelayBetweenSuccessiveRequests ==
    /\ ~burst
    /\ (fetches = 0 /\ pc # "idle") => pace = "none"

\* C19: every submitted target ends with exactly one outcome: each future
\* that as_completed has yielded is counted once, as a success or as a
\* failure, and once the pool has drained the two counts add up to the
\* number of targets; a task that raises is the failure of its own target
\* only: whether a task ends as failed depends on its own target alone, and
\* until the pool has drained the other tasks can go on.
TimesIn(q, x) == Cardinality({i \in 1..Len(q) : q[i] = x})
RaisingTasks == {t \in Tasks : OfTask(t) = "bad_dir"}

C19_OneOutcomePerTarget ==
    book_names # <<>> =>
        /\ success_count + Len(failed_books) = Cardinality(collected)
        /\ \A t \in Tasks :
              task_pc[t] = "returned" => (task_result[t] = "failed" <=> t \in RaisingTasks)
        /\ \A n \in BookNames :
              TimesIn(failed_books, n) =
                  Cardinality({t \in collected \cap RaisingTasks : book_names[t] = n})
        /\ Drained => success_count + Len(failed_books) = Len(book_names)
        /\ ~Drained => ENABLED MainNext

\* C19 witness: two workers, one task raised, its sibling succeeded, and
\* both have been tallied.
C19_Witness ==
    /\ Drained
    /\ workers > 1
    /\ Len(failed_books) = 1
    /\ success_count = Len(book_names) - 1
    /\ success_count >= 1

\* C20: no two tasks that are running at the same time write the same
\* stream file: tasks collecting the same stream work in different output
\* directories.
C20_TasksWriteDisjointFiles ==
    \A t, u \in Tasks :
        (/\ t # u
         /\ task_pc[t] \in Streams
         /\ task_pc[u] = task_pc[t]) => book_names[t] # book_names[u]

\* C21: tasks running in parallel share no mutable state: a step of one
\* task, the construction of its scraper included, leaves alone the state
\* another running task reads or writes; here the sinks of the process-wide
\* logger, which every task logs through.
C21_TasksShareNoMutableState ==
    [][\A t \in Tasks :
          (task_pc'[t] # task_pc[t] /\ Running \ {t} # {}) => handlers' = handlers]_vars

\* C22: the exit status of the process tells whether a target failed: it
\* is 0 when failed_books is empty and something else when it is not.
C22_ExitStatusReflectsFailures ==
    exit_status # NotExited => (exit_status = 0 <=> failed_books = <<>>)

\* C23: the identifier derived for a comment without a native one is the
\* same in every process, so a second process recognises the comment as
\* persisted: over two runs the file never holds more lines than the page
\* holds different comments.
LogicalRecords == {script[1].texts[i] : i \in 1..Len(script[1].texts)}

C23_FallbackIdRecognisedByNextProcess ==
    Len(files["comments"]) <= Cardinality(LogicalRecords)

\* C24: within a run the k-th request asks for page index k - 1, so the
\* index starts at 0, grows by one with each page fetched and is never
\* asked for twice; the items of a page are taken from its front, and each
\* record written is appended at the end of the file, so the file keeps the
\* order of the pages and, within a page, the order of extraction.
C24_PagesAndRecordsInOrder ==
    [][/\ (fetches' = fetches + 1) =>
              /\ page_count = fetches
              /\ pc' = "for" => items' = server[fetches].items
       /\ pc = "for" =>
              /\ items' \in {Tail(items), <<>>}
              /\ files' # files =>
                    files'[stream] =
                        Append(files[stream], RecordOf(stream, Head(items).id, book_id))]_vars

\* C24 witness: a run has fetched page 0 and page 1 and holds the records
\* of page 0 followed by those of page 1.
C24_Witness ==
    /\ script = Scenario45
    /\ fetches = 2
    /\ page_count = 2
    /\ Len(files[stream]) = 2 * PageSize
    /\ files[stream][PageSize] = RecordOf(stream, server[0].items[PageSize].id, book_id)
    /\ files[stream][PageSize + 1] = RecordOf(stream, server[1].items[1].id, book_id)

\* C25: during a run the Dedup Index only grows, and an id joins it and
\* new_count grows exactly when the append succeeded: new_count is the
\* number of lines the run has appended and the number of ids it has added
\* to the index it loaded; a failed append changes neither.
IndexAtStart == LoadExistingIds(file_at_start)

C25_CountIndexAndFileAgree ==
    [][/\ new_count' = Len(files'[stream']) - Len(file_at_start')
       /\ new_count' = Cardinality(existing_ids' \ IndexAtStart')
       /\ pc # "idle" => existing_ids \subseteq existing_ids'
       /\ FailedWrite => (existing_ids' = existing_ids /\ new_count' = new_count)]_vars

\* C25 witness: a run that has appended a record, and on whose current
\* page a write has failed.
C25_Witness ==
    /\ pc = "endpage"
    /\ page_failed
    /\ new_count >= 1

\* C27: a run never accepts more than max_comments records, nor appends
\* more than that many lines, even when the page on which the target is
\* reached holds further records the index does not know.
C27_NeverMoreThanTarget ==
    /\ new_count <= max_comments
    /\ Len(files[stream]) - Len(file_at_start) <= max_comments

\* C27 witness: a run has returned on its target while the page it was
\* reading still held a record that is neither in the index nor in the file.
UnseenOnPage(q) ==
    \E i \in 1..Len(server[q].items) :
        /\ ~server[q].items[i].raises
        /\ ~Skipped(server[q].items[i], existing_ids)
        /\ server[q].items[i].id \notin OwnIds(stream, files[stream])

C27_Witness ==
    /\ pc = "idle"
    /\ outcome = "target"
    /\ new_count = max_comments
    /\ fetches = 1
    /\ UnseenOnPage(0)

\* C28: when every record of the first list page is in the Dedup Index the
\* run loaded, the run makes that one request, appends nothing and returns
\* as stalled, whatever the later pages hold: it never asks for page 1.
FirstPageKnown ==
    /\ runs >= 1
    /\ server[0].kind = "page"
    /\ server[0].items # <<>>
    /\ \A i \in 1..Len(server[0].items) :
          /\ ~server[0].items[i].raises
          /\ server[0].items[i].id \in IndexAtStart

C28_KnownFirstPageEndsTheRun ==
    FirstPageKnown =>
        /\ fetches <= 1
        /\ files[stream] = file_at_start
        /\ pc = "idle" => (fetches = 1 /\ outcome = "stalled" /\ new_count = 0)

\* C28 witness: the run after the interrupted one has returned, and page 1
\* holds two records that are not in the file.
C28_Witness ==
    /\ script = ScenarioInterrupted(IdRun(3, 4))
    /\ runs = 2
    /\ FirstPageKnown
    /\ pc = "idle"
    /\ outcome = "stalled"
    /\ 3 \notin OwnIds(stream, files[stream])

\* C29: a target counts as succeeded exactly when its task raised nothing,
\* whatever it collected: a target whose book id was not found, or whose
\* collectors persisted no record, is counted in success_count and is never
\* in failed_books.
NothingCollected == {t \in Tasks : OfTask(t) \in {"not_found", "no_data"}}
Named(q) == {q[i] : i \in 1..Len(q)}

C29_SuccessMeansNoException ==
    book_names # <<>> =>
        /\ \A t \in Tasks :
              task_pc[t] = "returned" => (task_result[t] = "ok" <=> t \notin RaisingTasks)
        /\ success_count = Cardinality(collected \ RaisingTasks)
        /\ \A t \in NothingCollected :
              /\ book_names[t] \notin Named(failed_books)
              /\ output[book_names[t]] = {}
              /\ task_pc[t] = "returned" => task_result[t] = "ok"

\* C29 witness: a target whose book was not found and one whose pages gave
\* nothing have both been tallied as successes.
C29_Witness ==
    /\ Drained
    /\ \E t \in Tasks : OfTask(t) = "not_found"
    /\ \E t \in Tasks : OfTask(t) = "no_data"
    /\ success_count = Len(book_names)
    /\ failed_books = <<>>

\* C26: the logger is initialised once per process: once the flag is set
\* the handlers are the two of one setup_logger call, and no later step of
\* any call, from any thread and with any arguments, changes them.
InstalledOnce(q) ==
    /\ Len(q) = 2
    /\ q[1].sink = "stdout"
    /\ q[2].sink = "file"

C26_LoggerInitialisedOnce ==
    [][/\ logger_configured' => InstalledOnce(sinks')
       /\ logger_configured => sinks' = sinks]_vars

\* C30: get_proxy never returns a proxy marked failed; it returns a
\* validated proxy whenever a validated one is not marked failed, otherwise
\* a loaded one that is not marked failed, and None only when every loaded
\* proxy is marked failed or none was loaded; mark_proxy_failed changes the
\* failed set and nothing else: the total and valid counts stay.
Usable(list) == Elems(list) \ failed_proxies

C30_GetProxyAvoidsFailedProxies ==
    [][/\ pool_op' = "get_proxy" =>
              /\ proxy' # None =>
                    /\ proxy'[1].http \notin failed_proxies
                    /\ proxy'[1].https = proxy'[1].http
              /\ Usable(valid_proxies) # {} =>
                    (proxy' # None /\ proxy'[1].http \in Usable(valid_proxies))
              /\ (Usable(valid_proxies) = {} /\ Usable(proxies) # {}) =>
                    (proxy' # None /\ proxy'[1].http \in Usable(proxies))
              /\ proxy' = None <=> Usable(proxies) = {}
       /\ pool_op' = "mark_proxy_failed" =>
              /\ proxies' = proxies
              /\ valid_proxies' = valid_proxies
              /\ failed_proxies \subseteq failed_proxies'
              /\ GetStats(proxies', valid_proxies', failed_proxies').total =
                    GetStats(proxies, valid_proxies, failed_proxies).total
              /\ GetStats(proxies', valid_proxies', failed_proxies').valid =
                    GetStats(proxies, valid_proxies, failed_proxies).valid]_vars

\* C30 witness: every validated proxy is marked failed, and get_proxy has
\* returned a loaded proxy that is neither validated nor marked failed.
C30_Witness ==
    /\ pool_op = "get_proxy"
    /\ valid_proxies # <<>>
    /\ failed_proxies # {}
    /\ Usable(valid_proxies) = {}
    /\ proxy # None
    /\ proxy[1].http \in Usable(proxies)

====
